---- MODULE Spec2Model ----
(***************************************************************************)
(* A model of the augmented AVL tree of avltrees.go.                       *)
(*                                                                         *)
(* Nodes live in a heap: a function from node identities (addresses) to    *)
(* node records; Nil is the absent pointer and a slot holding NoNode is    *)
(* unallocated.  The program never observes an address, only whether two   *)
(* pointers are equal, so the heap is kept up to renaming of addresses: a  *)
(* new node is placed in the slot named after its key, and when Delete has *)
(* returned, the nodes no longer referenced are reclaimed and the live     *)
(* ones are moved to the slots named after their keys (Relocate), every    *)
(* pointer being renamed with them.  insertRec, deleteRec, rebalance and   *)
(* the rotations themselves run on the pointers as the code does.          *)
(*                                                                         *)
(* heap and Root are the program's state.  amap is the finite map that the *)
(* same calls build (put, remove, empty), with 0 for an absent key; last   *)
(* is the last call made: its kind, its arguments, what it returned, and   *)
(* what it went through (the branch taken, the rotations made).            *)
(***************************************************************************)
EXTENDS Integers, Sequences, FiniteSets, TLC

\* ------------------------------------------------------------------ bounds
\* keys are 1..MaxKey and values 1..MaxVal; both types are opaque to the code
\* but for the order of the keys
MaxKey == 4
MaxVal == 2

Keys     == 1..MaxKey
Vals     == 1..MaxVal
NodeIds  == 1..MaxKey
\* the keys a query may be asked about: one below and one above every key
QueryKeys == 0..(MaxKey + 1)
\* the indices Kth may be asked about: negative, in range and beyond Len
QueryIdx  == (0 - 2)..(MaxKey + 1)

Nil == 0

NoNode == [key |-> 0, value |-> 0, height |-> 0, size |-> 0,
           left |-> Nil, right |-> Nil, parent |-> Nil]

VARIABLES heap, Root, amap, last

vars == <<heap, Root, amap, last>>

\* ------------------------------------------------- structural maintenance
max(a, b) == IF a > b THEN a ELSE b

height(h, n) == IF n = Nil THEN 0 ELSE h[n].height

\* updateSize that leaves the right subtree out of the size
updateSize_noRight(h, n) ==
    [h EXCEPT ![n].height = max(height(h, h[n].left), height(h, h[n].right)) + 1,
              ![n].size = 1 + (IF h[n].left # Nil THEN h[h[n].left].size ELSE 0)]

\* the height, then the size, of n from the stored fields of its children
updateSize(h, n) ==
    [h EXCEPT ![n].height = max(height(h, h[n].left), height(h, h[n].right)) + 1,
              ![n].size = 1 + (IF h[n].left # Nil THEN h[h[n].left].size ELSE 0)
                            + (IF h[n].right # Nil THEN h[h[n].right].size ELSE 0)]

balanceFactor(h, n) == height(h, h[n].left) - height(h, h[n].right)

\* rotations and rebalance return the heap after the call and the node returned
rotateLeft(h, z) ==
    LET y  == h[z].right
        h1 == [h EXCEPT ![z].right = h[y].left]
        h2 == IF h1[y].left # Nil
              THEN [h1 EXCEPT ![h1[y].left].parent = z]
              ELSE h1
        h3 == [h2 EXCEPT ![y].left = z]
        h4 == [h3 EXCEPT ![y].parent = h3[z].parent]
        h5 == [h4 EXCEPT ![z].parent = y]
    IN  [h |-> updateSize(updateSize(h5, z), y), n |-> y]

rotateRight(h, z) ==
    LET y  == h[z].left
        h1 == [h EXCEPT ![z].left = h[y].right]
        h2 == IF h1[y].right # Nil
              THEN [h1 EXCEPT ![h1[y].right].parent = z]
              ELSE h1
        h3 == [h2 EXCEPT ![y].right = z]
        h4 == [h3 EXCEPT ![y].parent = h3[z].parent]
        h5 == [h4 EXCEPT ![z].parent = y]
    IN  [h |-> updateSize(updateSize(h5, z), y), n |-> y]

\* n.left = r and n.right = r, for the node r that a call returned together
\* with the heap it left
SetLeft(r, n)  == [r.h EXCEPT ![n].left = r.n]
SetRight(r, n) == [r.h EXCEPT ![n].right = r.n]

\* rebalance that repairs a left-heavy node only
rebalance_leftOnly(h, n) ==
    LET h1      == updateSize(h, n)
        balance == balanceFactor(h1, n)
    IN  IF balance > 1
        THEN LET h2 == IF balanceFactor(h1, h1[n].left) < 0
                       THEN SetLeft(rotateLeft(h1, h1[n].left), n)
                       ELSE h1
             IN  rotateRight(h2, n)
        ELSE [h |-> h1, n |-> n]

\* rebalance that already rotates a node whose subtrees differ by one
rebalance_eager(h, n) ==
    LET h1      == updateSize(h, n)
        balance == balanceFactor(h1, n)
    IN  IF balance > 0
        THEN LET h2 == IF balanceFactor(h1, h1[n].left) < 0
                       THEN SetLeft(rotateLeft(h1, h1[n].left), n)
                       ELSE h1
             IN  rotateRight(h2, n)
        ELSE IF balance < 0
        THEN LET h2 == IF balanceFactor(h1, h1[n].right) > 0
                       THEN SetRight(rotateRight(h1, h1[n].right), n)
                       ELSE h1
             IN  rotateLeft(h2, n)
        ELSE [h |-> h1, n |-> n]

\* rebalance that lets a height difference of two stand
rebalance_lateRepair(h, n) ==
    LET h1      == updateSize(h, n)
        balance == balanceFactor(h1, n)
    IN  IF balance > 2
        THEN LET h2 == IF balanceFactor(h1, h1[n].left) < 0
                       THEN SetLeft(rotateLeft(h1, h1[n].left), n)
                       ELSE h1
             IN  rotateRight(h2, n)
        ELSE IF balance < (0 - 2)
        THEN LET h2 == IF balanceFactor(h1, h1[n].right) > 0
                       THEN SetRight(rotateRight(h1, h1[n].right), n)
                       ELSE h1
             IN  rotateLeft(h2, n)
        ELSE [h |-> h1, n |-> n]

rebalance(h, n) ==
    LET h1      == updateSize(h, n)
        balance == balanceFactor(h1, n)
    IN  IF balance > 1
        THEN LET h2 == IF balanceFactor(h1, h1[n].left) < 0
                       THEN SetLeft(rotateLeft(h1, h1[n].left), n)
                       ELSE h1
             IN  rotateRight(h2, n)
        ELSE IF balance < (0 - 1)
        THEN LET h2 == IF balanceFactor(h1, h1[n].right) > 0
                       THEN SetRight(rotateRight(h1, h1[n].right), n)
                       ELSE h1
             IN  rotateLeft(h2, n)
        ELSE [h |-> h1, n |-> n]

RECURSIVE minNode(_, _)
minNode(h, n) == IF h[n].left # Nil THEN minNode(h, h[n].left) ELSE n

RECURSIVE maxNode(_, _)
maxNode(h, n) == IF h[n].right # Nil THEN maxNode(h, h[n].right) ELSE n

\* ------------------------------------------------------------ allocation
FreeIds(h) == {i \in NodeIds : h[i] = NoNode}

\* &Node{...}: a new object, distinct from every live one
NewNode(h, key) ==
    IF key \in FreeIds(h)
    THEN key
    ELSE CHOOSE i \in FreeIds(h) : \A j \in FreeIds(h) : i <= j

\* the nodes of the tree below n
RECURSIVE Reach(_, _)
Reach(h, n) ==
    IF n = Nil THEN {} ELSE {n} \cup Reach(h, h[n].left) \cup Reach(h, h[n].right)

\* When Delete has returned, the nodes that nothing refers to any more are
\* reclaimed.  The tree is then moved to the slots named after its keys,
\* every pointer renamed with the node it refers to, when that is a
\* renaming: no two nodes of the tree hold the same key and no parent pointer
\* leaves the tree.  Otherwise the nodes stay where they are, and so does
\* what their parent pointers still refer to.
Relocate(h, r) ==
    LET tree  == Reach(h, r)
        to(p) == IF p = Nil THEN Nil ELSE h[p].key
    IN  IF /\ \A i \in tree : h[i].parent \in tree \cup {Nil} /\ h[i].key \in NodeIds
           /\ \A i, j \in tree : h[i].key = h[j].key => i = j
        THEN [h    |-> [k \in NodeIds |->
                         LET at == {i \in tree : h[i].key = k}
                         IN  IF at = {} THEN NoNode
                             ELSE LET i == CHOOSE i \in at : TRUE
                                  IN  [h[i] EXCEPT !.left = to(@), !.right = to(@),
                                                   !.parent = to(@)]],
              root |-> to(r)]
        ELSE [h    |-> [i \in NodeIds |->
                         IF i \in tree \/ \E j \in tree : h[j].parent = i
                         THEN h[i] ELSE NoNode],
              root |-> r]

\* --------------------------------------------------------------- mutators
\* return rebalance(n), inserted
insertRecReturn(rb, inserted) == [h |-> rb.h, n |-> rb.n, inserted |-> inserted]

RECURSIVE insertRec(_, _, _, _, _)

\* insertRec that keeps the old value on an exact key match
insertRec_noOverwrite(h, n, key, value, parent) ==
    IF n = Nil
    THEN LET id == NewNode(h, key)
         IN  [h |-> [h EXCEPT ![id] = [key |-> key, value |-> value, height |-> 1,
                                       size |-> 1, left |-> Nil, right |-> Nil,
                                       parent |-> parent]],
              n |-> id, inserted |-> TRUE]
    ELSE IF key < h[n].key
    THEN LET r == insertRec(h, h[n].left, key, value, n)
         IN  insertRecReturn(rebalance(SetLeft(r, n), n), r.inserted)
    ELSE IF key > h[n].key
    THEN LET r == insertRec(h, h[n].right, key, value, n)
         IN  insertRecReturn(rebalance(SetRight(r, n), n), r.inserted)
    ELSE [h |-> h, n |-> n, inserted |-> FALSE]

insertRec(h, n, key, value, parent) ==
    IF n = Nil
    THEN LET id == NewNode(h, key)
         IN  [h |-> [h EXCEPT ![id] = [key |-> key, value |-> value, height |-> 1,
                                       size |-> 1, left |-> Nil, right |-> Nil,
                                       parent |-> parent]],
              n |-> id, inserted |-> TRUE]
    ELSE IF key < h[n].key
    THEN LET r == insertRec(h, h[n].left, key, value, n)
         IN  insertRecReturn(rebalance(SetLeft(r, n), n), r.inserted)
    ELSE IF key > h[n].key
    THEN LET r == insertRec(h, h[n].right, key, value, n)
         IN  insertRecReturn(rebalance(SetRight(r, n), n), r.inserted)
    ELSE [h |-> [h EXCEPT ![n].value = value], n |-> n, inserted |-> FALSE]

\* return rebalance(n), deleted
deleteRecReturn(rb, deleted) == [h |-> rb.h, n |-> rb.n, deleted |-> deleted]

RECURSIVE deleteRec(_, _, _)

\* deleteRec that copies the successor's key but not its value
deleteRec_keyOnly(h, n, key) ==
    IF n = Nil
    THEN [h |-> h, n |-> Nil, deleted |-> FALSE]
    ELSE IF key < h[n].key
    THEN LET r == deleteRec(h, h[n].left, key)
         IN  deleteRecReturn(rebalance(SetLeft(r, n), n), r.deleted)
    ELSE IF key > h[n].key
    THEN LET r == deleteRec(h, h[n].right, key)
         IN  deleteRecReturn(rebalance(SetRight(r, n), n), r.deleted)
    ELSE IF h[n].left = Nil \/ h[n].right = Nil
    THEN LET child == IF h[n].left # Nil THEN h[n].left ELSE h[n].right
         IN  [h |-> IF child # Nil
                    THEN [h EXCEPT ![child].parent = h[n].parent]
                    ELSE h,
              n |-> child, deleted |-> TRUE]
    ELSE LET successor == minNode(h, h[n].right)
             h1 == [h EXCEPT ![n].key = h[successor].key]
             r  == deleteRec(h1, h1[n].right, h1[successor].key)
         IN  deleteRecReturn(rebalance(SetRight(r, n), n), TRUE)

\* deleteRec whose splice leaves the promoted child's parent as it was
deleteRec_noReparent(h, n, key) ==
    IF n = Nil
    THEN [h |-> h, n |-> Nil, deleted |-> FALSE]
    ELSE IF key < h[n].key
    THEN LET r == deleteRec(h, h[n].left, key)
         IN  deleteRecReturn(rebalance(SetLeft(r, n), n), r.deleted)
    ELSE IF key > h[n].key
    THEN LET r == deleteRec(h, h[n].right, key)
         IN  deleteRecReturn(rebalance(SetRight(r, n), n), r.deleted)
    ELSE IF h[n].left = Nil \/ h[n].right = Nil
    THEN LET child == IF h[n].left # Nil THEN h[n].left ELSE h[n].right
         IN  [h |-> h, n |-> child, deleted |-> TRUE]
    ELSE LET successor == minNode(h, h[n].right)
             h1 == [h EXCEPT ![n].key = h[successor].key,
                             ![n].value = h[successor].value]
             r  == deleteRec(h1, h1[n].right, h1[successor].key)
         IN  deleteRecReturn(rebalance(SetRight(r, n), n), TRUE)

\* deleteRec that fills a node with two children from its predecessor, the
\* rightmost node of its left subtree
deleteRec_predecessor(h, n, key) ==
    IF n = Nil
    THEN [h |-> h, n |-> Nil, deleted |-> FALSE]
    ELSE IF key < h[n].key
    THEN LET r == deleteRec(h, h[n].left, key)
         IN  deleteRecReturn(rebalance(SetLeft(r, n), n), r.deleted)
    ELSE IF key > h[n].key
    THEN LET r == deleteRec(h, h[n].right, key)
         IN  deleteRecReturn(rebalance(SetRight(r, n), n), r.deleted)
    ELSE IF h[n].left = Nil \/ h[n].right = Nil
    THEN LET child == IF h[n].left # Nil THEN h[n].left ELSE h[n].right
         IN  [h |-> IF child # Nil
                    THEN [h EXCEPT ![child].parent = h[n].parent]
                    ELSE h,
              n |-> child, deleted |-> TRUE]
    ELSE LET predecessor == maxNode(h, h[n].left)
             h1 == [h EXCEPT ![n].key = h[predecessor].key,
                             ![n].value = h[predecessor].value]
             r  == deleteRec(h1, h1[n].left, h1[predecessor].key)
         IN  deleteRecReturn(rebalance(SetLeft(r, n), n), TRUE)

deleteRec(h, n, key) ==
    IF n = Nil
    THEN [h |-> h, n |-> Nil, deleted |-> FALSE]
    ELSE IF key < h[n].key
    THEN LET r == deleteRec(h, h[n].left, key)
         IN  deleteRecReturn(rebalance(SetLeft(r, n), n), r.deleted)
    ELSE IF key > h[n].key
    THEN LET r == deleteRec(h, h[n].right, key)
         IN  deleteRecReturn(rebalance(SetRight(r, n), n), r.deleted)
    ELSE IF h[n].left = Nil \/ h[n].right = Nil
    THEN LET child == IF h[n].left # Nil THEN h[n].left ELSE h[n].right
         IN  [h |-> IF child # Nil
                    THEN [h EXCEPT ![child].parent = h[n].parent]
                    ELSE h,
              n |-> child, deleted |-> TRUE]
    ELSE LET successor == minNode(h, h[n].right)
             h1 == [h EXCEPT ![n].key = h[successor].key,
                             ![n].value = h[successor].value]
             r  == deleteRec(h1, h1[n].right, h1[successor].key)
         IN  deleteRecReturn(rebalance(SetRight(r, n), n), TRUE)

\* ------------------------------------------------- what a call went through
\* the calls of rebalance that insertRec makes, innermost first: each with the
\* heap at the time of the call and the node it is given
RECURSIVE insertRecCalls(_, _, _, _, _)
insertRecCalls(h, n, key, value, parent) ==
    IF n = Nil
    THEN <<>>
    ELSE IF key < h[n].key
    THEN Append(insertRecCalls(h, h[n].left, key, value, n),
                [h |-> SetLeft(insertRec(h, h[n].left, key, value, n), n), n |-> n])
    ELSE IF key > h[n].key
    THEN Append(insertRecCalls(h, h[n].right, key, value, n),
                [h |-> SetRight(insertRec(h, h[n].right, key, value, n), n), n |-> n])
    ELSE <<>>

\* n after n.key, n.value = successor.key, successor.value
TakeSuccessor(h, n, successor) ==
    [h EXCEPT ![n].key = h[successor].key, ![n].value = h[successor].value]

\* the calls of rebalance that deleteRec makes, innermost first
RECURSIVE deleteRecCalls(_, _, _)
deleteRecCalls(h, n, key) ==
    IF n = Nil
    THEN <<>>
    ELSE IF key < h[n].key
    THEN Append(deleteRecCalls(h, h[n].left, key),
                [h |-> SetLeft(deleteRec(h, h[n].left, key), n), n |-> n])
    ELSE IF key > h[n].key
    THEN Append(deleteRecCalls(h, h[n].right, key),
                [h |-> SetRight(deleteRec(h, h[n].right, key), n), n |-> n])
    ELSE IF h[n].left = Nil \/ h[n].right = Nil
    THEN <<>>
    ELSE Append(deleteRecCalls(TakeSuccessor(h, n, minNode(h, h[n].right)),
                               h[n].right, h[minNode(h, h[n].right)].key),
                [h |-> SetRight(deleteRec(TakeSuccessor(h, n, minNode(h, h[n].right)),
                                          h[n].right, h[minNode(h, h[n].right)].key),
                                n),
                 n |-> n])

\* the number of rotations a call of rebalance makes: none, one, or two when
\* the heavy child leans the other way
rebalanceRotations(h, n) ==
    IF balanceFactor(updateSize(h, n), n) > 1
    THEN IF balanceFactor(updateSize(h, n), h[n].left) < 0 THEN 2 ELSE 1
    ELSE IF balanceFactor(updateSize(h, n), n) < (0 - 1)
    THEN IF balanceFactor(updateSize(h, n), h[n].right) > 0 THEN 2 ELSE 1
    ELSE 0

\* what a call of rebalance dereferences, h1 being the heap after its call of
\* updateSize: n.left for balanceFactor(n.left) and rotateRight(n) when
\* balance > 1, n.left.right for rotateLeft(n.left) when that child leans
\* right, n.left again for rotateRight(n) after it; and the mirror image
rebalanceDereferences(h1, n) ==
    /\ balanceFactor(h1, n) > 1 =>
          /\ h1[n].left # Nil
          /\ balanceFactor(h1, h1[n].left) < 0 =>
                /\ h1[h1[n].left].right # Nil
                /\ SetLeft(rotateLeft(h1, h1[n].left), n)[n].left # Nil
    /\ balanceFactor(h1, n) < (0 - 1) =>
          /\ h1[n].right # Nil
          /\ balanceFactor(h1, h1[n].right) > 0 =>
                /\ h1[h1[n].right].left # Nil
                /\ SetRight(rotateRight(h1, h1[n].right), n)[n].right # Nil

\* the number of rotations made by a sequence of calls of rebalance
RECURSIVE Rotations(_)
Rotations(calls) ==
    IF calls = <<>> THEN 0
    ELSE rebalanceRotations(Head(calls).h, Head(calls).n) + Rotations(Tail(calls))

\* the branch deleteRec takes at the node that holds the key
deleteRecBranch(h, s) ==
    IF ~s.found THEN "absent"
    ELSE IF h[s.node].left # Nil /\ h[s.node].right # Nil THEN "two children"
    ELSE IF h[s.node].left # Nil \/ h[s.node].right # Nil THEN "one child"
    ELSE "leaf"

\* ---------------------------------------------------------------- queries
RECURSIVE SearchLoop(_, _, _)

\* Search that descends to the wrong side
SearchLoop_swapped(h, curr, key) ==
    IF curr = Nil THEN [node |-> Nil, found |-> FALSE]
    ELSE IF key < h[curr].key THEN SearchLoop(h, h[curr].right, key)
    ELSE IF key > h[curr].key THEN SearchLoop(h, h[curr].left, key)
    ELSE [node |-> curr, found |-> TRUE]

SearchLoop(h, curr, key) ==
    IF curr = Nil THEN [node |-> Nil, found |-> FALSE]
    ELSE IF key < h[curr].key THEN SearchLoop(h, h[curr].left, key)
    ELSE IF key > h[curr].key THEN SearchLoop(h, h[curr].right, key)
    ELSE [node |-> curr, found |-> TRUE]

Search(h, root, key) == SearchLoop(h, root, key)

TreeLen(h, root) == IF root = Nil THEN 0 ELSE h[root].size

Min(h, root) ==
    IF root = Nil THEN [node |-> Nil, found |-> FALSE]
    ELSE [node |-> minNode(h, root), found |-> TRUE]

Max(h, root) ==
    IF root = Nil THEN [node |-> Nil, found |-> FALSE]
    ELSE [node |-> maxNode(h, root), found |-> TRUE]

RECURSIVE CeilingLoop(_, _, _, _)
CeilingLoop(h, curr, result, key) ==
    IF curr = Nil THEN [node |-> result, found |-> result # Nil]
    ELSE IF key = h[curr].key THEN [node |-> curr, found |-> TRUE]
    ELSE IF key < h[curr].key THEN CeilingLoop(h, h[curr].left, curr, key)
    ELSE CeilingLoop(h, h[curr].right, result, key)

Ceiling(h, root, key) == CeilingLoop(h, root, Nil, key)

RECURSIVE FloorLoop(_, _, _, _)
FloorLoop(h, curr, result, key) ==
    IF curr = Nil THEN [node |-> result, found |-> result # Nil]
    ELSE IF key = h[curr].key THEN [node |-> curr, found |-> TRUE]
    ELSE IF key < h[curr].key THEN FloorLoop(h, h[curr].left, result, key)
    ELSE FloorLoop(h, h[curr].right, curr, key)

Floor(h, root, key) == FloorLoop(h, root, Nil, key)

RECURSIVE HigherLoop(_, _, _, _)
HigherLoop(h, curr, result, key) ==
    IF curr = Nil THEN [node |-> result, found |-> result # Nil]
    ELSE IF key < h[curr].key THEN HigherLoop(h, h[curr].left, curr, key)
    ELSE HigherLoop(h, h[curr].right, result, key)

Higher(h, root, key) == HigherLoop(h, root, Nil, key)

RECURSIVE LowerLoop(_, _, _, _)

\* Lower that records a node holding the key itself
LowerLoop_inclusive(h, curr, result, key) ==
    IF curr = Nil THEN [node |-> result, found |-> result # Nil]
    ELSE IF key < h[curr].key THEN LowerLoop(h, h[curr].left, result, key)
    ELSE LowerLoop(h, h[curr].right, curr, key)

LowerLoop(h, curr, result, key) ==
    IF curr = Nil THEN [node |-> result, found |-> result # Nil]
    ELSE IF key <= h[curr].key THEN LowerLoop(h, h[curr].left, result, key)
    ELSE LowerLoop(h, h[curr].right, curr, key)

Lower(h, root, key) == LowerLoop(h, root, Nil, key)

\* the parent walk of Predecessor: leaves the loop with p
RECURSIVE PredecessorLoop(_, _, _)
PredecessorLoop(h, n, p) ==
    IF p # Nil /\ n = h[p].left THEN PredecessorLoop(h, p, h[p].parent) ELSE p

Predecessor(h, n) ==
    IF h[n].left # Nil
    THEN [node |-> maxNode(h, h[n].left), found |-> TRUE]
    ELSE LET p == PredecessorLoop(h, n, h[n].parent)
         IN  IF p # Nil THEN [node |-> p, found |-> TRUE]
             ELSE [node |-> Nil, found |-> FALSE]

RECURSIVE SuccessorLoop(_, _, _)
SuccessorLoop(h, n, p) ==
    IF p # Nil /\ n = h[p].right THEN SuccessorLoop(h, p, h[p].parent) ELSE p

\* Successor that takes the parent without walking the chain
Successor_parentOnly(h, n) ==
    IF h[n].right # Nil
    THEN [node |-> minNode(h, h[n].right), found |-> TRUE]
    ELSE LET p == h[n].parent
         IN  IF p # Nil THEN [node |-> p, found |-> TRUE]
             ELSE [node |-> Nil, found |-> FALSE]

Successor(h, n) ==
    IF h[n].right # Nil
    THEN [node |-> minNode(h, h[n].right), found |-> TRUE]
    ELSE LET p == SuccessorLoop(h, n, h[n].parent)
         IN  IF p # Nil THEN [node |-> p, found |-> TRUE]
             ELSE [node |-> Nil, found |-> FALSE]

\* the iterators, run to the end by a consumer that never stops early;
\* out is the sequence of node copies handed to yield
RECURSIVE InOrderLoop(_, _, _, _)
InOrderLoop(h, curr, stack, out) ==
    IF curr # Nil
    THEN InOrderLoop(h, h[curr].left, Append(stack, curr), out)
    ELSE IF Len(stack) > 0
    THEN LET n == stack[Len(stack)]
         IN  InOrderLoop(h, h[n].right, SubSeq(stack, 1, Len(stack) - 1),
                         Append(out, h[n]))
    ELSE out

InOrder(h, root) == InOrderLoop(h, root, <<>>, <<>>)

RECURSIVE RangeLoop(_, _, _, _, _, _)

\* Range that treats the upper bound as inclusive
RangeLoop_inclusiveTo(h, curr, stack, out, from, to) ==
    IF curr # Nil
    THEN RangeLoop(h, h[curr].left, Append(stack, curr), out, from, to)
    ELSE IF Len(stack) > 0
    THEN LET n    == stack[Len(stack)]
             out1 == IF h[n].key >= from /\ h[n].key <= to
                     THEN Append(out, h[n]) ELSE out
             next == IF h[n].key > to THEN Nil ELSE h[n].right
         IN  RangeLoop(h, next, SubSeq(stack, 1, Len(stack) - 1), out1, from, to)
    ELSE out

RangeLoop(h, curr, stack, out, from, to) ==
    IF curr # Nil
    THEN RangeLoop(h, h[curr].left, Append(stack, curr), out, from, to)
    ELSE IF Len(stack) > 0
    THEN LET n    == stack[Len(stack)]
             out1 == IF h[n].key >= from /\ h[n].key < to
                     THEN Append(out, h[n]) ELSE out
             next == IF h[n].key >= to THEN Nil ELSE h[n].right
         IN  RangeLoop(h, next, SubSeq(stack, 1, Len(stack) - 1), out1, from, to)
    ELSE out

Range(h, root, from, to) == RangeLoop(h, root, <<>>, <<>>, from, to)

RECURSIVE RankLoop(_, _, _, _)

\* Rank that counts the node holding the key itself
RankLoop_inclusive(h, curr, rank, key) ==
    IF curr = Nil THEN rank
    ELSE IF key < h[curr].key THEN RankLoop(h, h[curr].left, rank, key)
    ELSE LET leftSize == IF h[curr].left # Nil THEN h[h[curr].left].size ELSE 0
         IN  IF key = h[curr].key THEN rank + leftSize + 1
             ELSE RankLoop(h, h[curr].right, rank + leftSize + 1, key)

RankLoop(h, curr, rank, key) ==
    IF curr = Nil THEN rank
    ELSE IF key < h[curr].key THEN RankLoop(h, h[curr].left, rank, key)
    ELSE LET leftSize == IF h[curr].left # Nil THEN h[h[curr].left].size ELSE 0
         IN  IF key = h[curr].key THEN rank + leftSize
             ELSE RankLoop(h, h[curr].right, rank + leftSize + 1, key)

Rank(h, root, key) == RankLoop(h, root, 0, key)

RECURSIVE KthLoop(_, _, _)

\* Kth that forgets the node itself when it descends right
KthLoop_offByOne(h, curr, k) ==
    IF curr = Nil THEN [node |-> Nil, found |-> FALSE]
    ELSE LET leftSize == IF h[curr].left # Nil THEN h[h[curr].left].size ELSE 0
         IN  IF k < leftSize THEN KthLoop(h, h[curr].left, k)
             ELSE IF k > leftSize THEN KthLoop(h, h[curr].right, k - leftSize)
             ELSE [node |-> curr, found |-> TRUE]

KthLoop(h, curr, k) ==
    IF curr = Nil THEN [node |-> Nil, found |-> FALSE]
    ELSE LET leftSize == IF h[curr].left # Nil THEN h[h[curr].left].size ELSE 0
         IN  IF k < leftSize THEN KthLoop(h, h[curr].left, k)
             ELSE IF k > leftSize THEN KthLoop(h, h[curr].right, k - (leftSize + 1))
             ELSE [node |-> curr, found |-> TRUE]

Kth(h, root, k) == KthLoop(h, root, k)

\* ------------------------------------------------------------ the program
\* a call of Insert: the heap and the root it leaves, and what it returns
InsertReturn(r) == [h |-> r.h, root |-> r.n, ret |-> r.inserted]

InsertCall(h, root, key, value) == InsertReturn(insertRec(h, root, key, value, Nil))

\* if t.Root != nil { t.Root.parent = nil }
ClearRootParent(h, n) == IF n # Nil THEN [h EXCEPT ![n].parent = Nil] ELSE h

\* a call of Delete, and the reclamation of the node it removed
DeleteReturn(m, deleted) == [h |-> m.h, root |-> m.root, ret |-> deleted]

DeleteCall(h, root, key) ==
    LET r == deleteRec(h, root, key)
    IN  DeleteReturn(Relocate(ClearRootParent(r.h, r.n), r.n), r.deleted)

\* last is the last call: its kind, its arguments, the value it returned,
\* the branch it took at the node of the key and the rotations it made
Init ==
    /\ heap = [i \in NodeIds |-> NoNode]
    /\ Root = Nil
    /\ amap = [k \in Keys |-> 0]
    /\ last = [op |-> "New", key |-> 0, value |-> 0, ret |-> FALSE,
               branch |-> "none", rotations |-> 0]

Insert(key, value) ==
    /\ ~(FreeIds(heap) = {} /\ ~Search(heap, Root, key).found)
    /\ LET c == InsertCall(heap, Root, key, value)
       IN  /\ heap' = c.h
           /\ Root' = c.root
           /\ last' = [op |-> "Insert", key |-> key, value |-> value, ret |-> c.ret,
                       branch |-> IF c.ret THEN "new" ELSE "overwrite",
                       rotations |-> Rotations(insertRecCalls(heap, Root, key, value, Nil))]
    /\ amap' = [amap EXCEPT ![key] = value]

Delete(key) ==
    /\ LET c == DeleteCall(heap, Root, key)
       IN  /\ heap' = c.h
           /\ Root' = c.root
           /\ last' = [op |-> "Delete", key |-> key, value |-> 0, ret |-> c.ret,
                       branch |-> deleteRecBranch(heap, Search(heap, Root, key)),
                       rotations |-> Rotations(deleteRecCalls(heap, Root, key))]
    /\ amap' = [amap EXCEPT ![key] = 0]

Clear ==
    /\ Root' = Nil
    /\ heap' = [i \in NodeIds |-> NoNode]
    /\ last' = [op |-> "Clear", key |-> 0, value |-> 0, ret |-> FALSE,
                branch |-> "none", rotations |-> 0]
    /\ amap' = [k \in Keys |-> 0]

Next ==
    \/ \E key \in Keys, value \in Vals : Insert(key, value)
    \/ \E key \in Keys : Delete(key)
    \/ Clear

Spec == Init /\ [][Next]_vars

\* ------------------------------------------------------- what is observed
\* the keys held by the nodes of the tree
TreeKeys == {heap[i].key : i \in Reach(heap, Root)}

\* the keys of the abstract map
MapKeys == {k \in Keys : amap[k] # 0}

\* the (key, value) pairs of the abstract map with keys up to k, ascending
RECURSIVE MapPairs(_)
MapPairs(k) ==
    IF k = 0 THEN <<>>
    ELSE MapPairs(k - 1) \o (IF amap[k] # 0 THEN << <<k, amap[k]>> >> ELSE <<>>)

\* the (key, value) pairs InOrder yields
InOrderPairs ==
    LET io == InOrder(heap, Root)
    IN  [i \in 1..Len(io) |-> <<io[i].key, io[i].value>>]

\* the number of keys of the tree strictly below key
Below(key) == Cardinality({k \in TreeKeys : k < key})

SetMin(S) == CHOOSE x \in S : \A y \in S : x <= y
SetMax(S) == CHOOSE x \in S : \A y \in S : x >= y

\* a query result is the node of the tree that holds the extreme key of S,
\* or not-found when S is empty
Answers(res, S, least) ==
    IF S = {}
    THEN res.found = FALSE /\ res.node = Nil
    ELSE /\ res.found = TRUE
         /\ res.node \in Reach(heap, Root)
         /\ heap[res.node].key = (IF least THEN SetMin(S) ELSE SetMax(S))

\* ----------------------------------------------------------------- claims

\* C1: InOrder yields exactly the (key, value) pairs of the abstract map
\* obtained by the same Insert (put with overwrite), Delete (remove) and
\* Clear (empty) calls, each key once, in strictly ascending key order.
C1_InOrderRefinesMap ==
    /\ InOrderPairs = MapPairs(MaxKey)
    /\ \A i, j \in 1..Len(InOrderPairs) :
          i < j => InOrderPairs[i][1] < InOrderPairs[j][1]

\* a Delete has just returned true and left three pairs whose values differ
C1_Witness ==
    /\ last.op = "Delete" /\ last.ret = TRUE
    /\ Len(InOrderPairs) >= 3
    /\ \E i, j \in 1..Len(InOrderPairs) : InOrderPairs[i][2] # InOrderPairs[j][2]

\* C2: every node of the tree has height(left) - height(right) in {-1, 0, 1}
\* and a stored height of 1 + max(height(left), height(right)), an absent
\* child counting as height 0.
C2_BalancedHeights ==
    \A n \in Reach(heap, Root) :
        /\ balanceFactor(heap, n) \in {0 - 1, 0, 1}
        /\ heap[n].height =
              1 + max(height(heap, heap[n].left), height(heap, heap[n].right))

\* a Delete of the smallest of four keys has just returned, which leaves the
\* three others balanced
C2_Witness ==
    /\ last.op = "Delete" /\ last.ret = TRUE
    /\ TreeLen(heap, Root) = 3 /\ heap[Root].height = 2
    /\ last.key < SetMin(TreeKeys)

\* C3: every node's stored size is 1 + size(left) + size(right), Len is the
\* number of distinct keys present, and once every inserted key has been
\* deleted the tree is empty: Root absent and Len = 0.
C3_SizesAndLen ==
    /\ \A n \in Reach(heap, Root) :
          heap[n].size =
              1 + (IF heap[n].left = Nil THEN 0 ELSE heap[heap[n].left].size)
                + (IF heap[n].right = Nil THEN 0 ELSE heap[heap[n].right].size)
    /\ TreeLen(heap, Root) = Cardinality(MapKeys)
    /\ MapKeys = {} => (Root = Nil /\ TreeLen(heap, Root) = 0)

\* the Delete of the last key has just returned
C3_Witness ==
    /\ last.op = "Delete" /\ last.ret = TRUE
    /\ MapKeys = {} /\ Root = Nil

\* C4: an Insert(k, v2) that follows an Insert(k, v1) which returned true
\* returns false, Search(k) then yields v2, Len is unchanged, and the second
\* insert changes no node's key, left, right, parent, height or size: only
\* the value of the node holding k.
C4_OverwriteInPlace ==
    [][ (/\ last.op = "Insert" /\ last.ret = TRUE
         /\ last'.op = "Insert" /\ last'.key = last.key)
        => LET s == Search(heap', Root', last'.key)
           IN  /\ last'.ret = FALSE
               /\ s.found /\ heap'[s.node].value = last'.value
               /\ TreeLen(heap', Root') = TreeLen(heap, Root)
               /\ Root' = Root
               /\ s.node = Search(heap, Root, last.key).node
               /\ \A i \in NodeIds :
                     /\ [heap'[i] EXCEPT !.value = heap[i].value] = heap[i]
                     /\ i # s.node => heap'[i].value = heap[i].value ]_vars

\* an overwrite with another value has just returned, of a node below the
\* root of a tree of three nodes or more
C4_Witness ==
    /\ last.op = "Insert" /\ last.ret = FALSE /\ last.value = 2
    /\ TreeLen(heap, Root) >= 3
    /\ Search(heap, Root, last.key).node # Root
    /\ \E i \in Reach(heap, Root) : heap[i].value = 1

\* C5: after Insert(k, v), Search(k) is found with value v; after Delete(k),
\* Search(k) is not-found; and Delete(k) returns true exactly when k was
\* present before the call.
C5_RoundTrip ==
    [][ /\ last'.op = "Insert" =>
              LET s == Search(heap', Root', last'.key)
              IN  s.found /\ heap'[s.node].key = last'.key
                          /\ heap'[s.node].value = last'.value
        /\ last'.op = "Delete" =>
              /\ Search(heap', Root', last'.key) = [node |-> Nil, found |-> FALSE]
              /\ last'.ret = Search(heap, Root, last'.key).found ]_vars

\* a Delete of a key between two others has just returned true
C5_Witness ==
    /\ last.op = "Delete" /\ last.ret = TRUE
    /\ ~Search(heap, Root, last.key).found
    /\ TreeLen(heap, Root) >= 3
    /\ \E k \in TreeKeys : k < last.key
    /\ \E k \in TreeKeys : k > last.key

\* C6: for every key, present or absent, Rank(key) is the number of keys in
\* the tree strictly less than key: 0 for a key at or below the minimum and
\* Len for a key above the maximum.
C6_RankCountsSmaller ==
    \A key \in QueryKeys :
        /\ Rank(heap, Root, key) = Below(key)
        /\ (TreeKeys # {} /\ key <= SetMin(TreeKeys)) => Rank(heap, Root, key) = 0
        /\ (TreeKeys # {} /\ key > SetMax(TreeKeys)) =>
              Rank(heap, Root, key) = TreeLen(heap, Root)

\* an absent key that lies between the keys of the tree
C6_Witness ==
    /\ TreeLen(heap, Root) >= 3
    /\ \E key \in QueryKeys :
          /\ key \notin TreeKeys
          /\ Rank(heap, Root, key) = 2
          /\ Rank(heap, Root, key) < TreeLen(heap, Root)

\* C7: for all i in [0, Len), Kth(i) is found, holds the i-th smallest key
\* and Rank(Kth(i).key) = i; for every k that is negative or >= Len, Kth(k)
\* is not-found.
C7_KthAndRank ==
    \A i \in QueryIdx :
        LET r == Kth(heap, Root, i)
        IN  IF 0 <= i /\ i < TreeLen(heap, Root)
            THEN /\ r.found
                 /\ r.node \in Reach(heap, Root)
                 /\ Below(heap[r.node].key) = i
                 /\ Rank(heap, Root, heap[r.node].key) = i
            ELSE r = [node |-> Nil, found |-> FALSE]

\* the fourth smallest key is held by a node two levels below the root
C7_Witness ==
    /\ TreeLen(heap, Root) >= 4
    /\ Kth(heap, Root, 3).found
    /\ Kth(heap, Root, 3).node \notin {Root, heap[Root].left, heap[Root].right}

\* C8: for every query key, Ceiling returns the node with the smallest key
\* >= it, Floor the largest key <= it, Higher the smallest key > it, Lower
\* the largest key < it, each not-found exactly when no such key exists; for
\* a present key k, Floor(k), Ceiling(k) and Search(k) are the same node.
C8_BoundedQueries ==
    \A key \in QueryKeys :
        /\ Answers(Ceiling(heap, Root, key), {k \in TreeKeys : k >= key}, TRUE)
        /\ Answers(Floor(heap, Root, key), {k \in TreeKeys : k <= key}, FALSE)
        /\ Answers(Higher(heap, Root, key), {k \in TreeKeys : k > key}, TRUE)
        /\ Answers(Lower(heap, Root, key), {k \in TreeKeys : k < key}, FALSE)
        /\ key \in TreeKeys =>
              /\ Search(heap, Root, key).found
              /\ Floor(heap, Root, key) = Search(heap, Root, key)
              /\ Ceiling(heap, Root, key) = Search(heap, Root, key)

\* an absent key between two present ones, a key with both neighbours, and
\* the maximum, which has no higher key
C8_Witness ==
    /\ TreeLen(heap, Root) >= 3
    /\ \E key \in QueryKeys :
          /\ key \notin TreeKeys
          /\ Ceiling(heap, Root, key).found /\ Floor(heap, Root, key).found
          /\ Ceiling(heap, Root, key).node # Floor(heap, Root, key).node
    /\ \E key \in TreeKeys :
          /\ Higher(heap, Root, key).found /\ Lower(heap, Root, key).found
    /\ ~Higher(heap, Root, SetMax(TreeKeys)).found

\* C9: for every pair (from, to), from >= to included, Range(from, to)
\* yields exactly the ascending subsequence of InOrder whose keys satisfy
\* from <= key < to, and nothing else.
C9_RangeIsInOrderSlice ==
    \A from, to \in QueryKeys :
        LET InRange(n) == from <= n.key /\ n.key < to
        IN  Range(heap, Root, from, to) = SelectSeq(InOrder(heap, Root), InRange)

\* a range that starts at an absent key and stops before a present one
C9_Witness ==
    /\ TreeLen(heap, Root) >= 3
    /\ \E from, to \in QueryKeys :
          /\ from < to
          /\ Len(Range(heap, Root, from, to)) = 1
          /\ from \notin TreeKeys /\ to \in TreeKeys
          /\ \E k \in TreeKeys : k < from

\* C10: for every node n of the tree, Successor(n) is the node Higher(n.key)
\* returns and Predecessor(n) the node Lower(n.key) returns, not-found
\* exactly when n holds the maximum (minimum) key; so Higher(k) equals
\* Successor(Search(k)) for every present key k.
C10_SuccessorIsHigher ==
    /\ \A n \in Reach(heap, Root) :
          /\ Successor(heap, n) = Higher(heap, Root, heap[n].key)
          /\ Predecessor(heap, n) = Lower(heap, Root, heap[n].key)
          /\ Successor(heap, n).found = (heap[n].key # SetMax(TreeKeys))
          /\ Predecessor(heap, n).found = (heap[n].key # SetMin(TreeKeys))
    /\ \A k \in TreeKeys :
          Higher(heap, Root, k) = Successor(heap, Search(heap, Root, k).node)

\* a node whose successor is found by walking up more than one parent
C10_Witness ==
    /\ Root # Nil /\ heap[Root].height = 3
    /\ \E n \in Reach(heap, Root) :
          /\ heap[n].right = Nil /\ heap[n].parent # Nil
          /\ Successor(heap, n).found
          /\ Successor(heap, n).node # heap[n].parent
    /\ \E n \in Reach(heap, Root) :
          /\ heap[n].left = Nil /\ Predecessor(heap, n).found

C12_AbsentDeleteChangesNothing ==
    [][ (last'.op = "Delete" /\ ~Search(heap, Root, last'.key).found)
        => /\ last'.ret = FALSE
           /\ deleteRec(heap, Root, last'.key) =
                 [h |-> heap, n |-> Root, deleted |-> FALSE]
           /\ Root' = Root
           /\ heap' = heap
           /\ last'.rotations = 0 ]_vars

\* a Delete of an absent key has just returned, after a search path of two
\* nodes, on each of which rebalance was called
C12_Witness ==
    /\ last.op = "Delete" /\ last.ret = FALSE /\ last.branch = "absent"
    /\ TreeLen(heap, Root) = 3
    /\ Len(deleteRecCalls(heap, Root, last.key)) = 2

\* what deleteRec(h, root, key) = r did with the node n that held key and
\* had two children, successor being the leftmost node of its right subtree:
\* n is still a node of the tree and holds the key and value successor
\* held, successor is the one node that left the tree, and the recursive
\* call found successor as a node without a left child, which is spliced
TwoChildDelete(h, root, n, successor, r) ==
    /\ r.deleted = TRUE
    /\ n \in Reach(r.h, r.n)
    /\ r.h[n].key = h[successor].key
    /\ r.h[n].value = h[successor].value
    /\ Reach(h, root) \ Reach(r.h, r.n) = {successor}
    /\ Reach(r.h, r.n) \ Reach(h, root) = {}
    /\ successor # n
    /\ SearchLoop(TakeSuccessor(h, n, successor), h[n].right, h[successor].key) =
          [node |-> successor, found |-> TRUE]
    /\ deleteRecBranch(TakeSuccessor(h, n, successor),
                       [node |-> successor, found |-> TRUE]) \in {"leaf", "one child"}

\* C13: a Delete of a key held by a node with two children keeps that very
\* node in the tree, now holding the key and value of its in-order successor
\* (the leftmost node of its right subtree); the node that leaves the tree is
\* the successor's, removed by the splice of a node with at most one child.
C13_TwoChildDeleteKeepsNode ==
    [][ (/\ last'.op = "Delete"
         /\ deleteRecBranch(heap, Search(heap, Root, last'.key)) = "two children")
        => /\ last'.ret = TRUE /\ last'.branch = "two children"
           /\ TwoChildDelete(heap, Root, Search(heap, Root, last'.key).node,
                             minNode(heap, heap[Search(heap, Root, last'.key).node].right),
                             deleteRec(heap, Root, last'.key)) ]_vars

\* a Delete of the key of a node with two children has just returned, after
\* a rotation of that node
C13_Witness ==
    /\ last.op = "Delete" /\ last.ret = TRUE /\ last.branch = "two children"
    /\ last.rotations > 0
    /\ TreeLen(heap, Root) = 3

\* every call of rebalance in calls sees, after its call of updateSize, a
\* balance factor from -2 to 2, and every node it dereferences is present
RebalanceCallsSafe(calls) ==
    \A i \in 1..Len(calls) :
        /\ balanceFactor(updateSize(calls[i].h, calls[i].n), calls[i].n) \in (0 - 2)..2
        /\ rebalanceDereferences(updateSize(calls[i].h, calls[i].n), calls[i].n)

\* C14: in every call of rebalance made by an Insert or a Delete, the balance
\* factor seen after the refresh of height and size is within [-2, 2], and
\* every rotation is given a node whose required child is present: z.right
\* for rotateLeft and z.left for rotateRight, the inner rotation of a double
\* rotation included.
C14_RebalanceIsSafe ==
    [][ /\ last'.op = "Insert" =>
              RebalanceCallsSafe(insertRecCalls(heap, Root, last'.key, last'.value, Nil))
        /\ last'.op = "Delete" =>
              RebalanceCallsSafe(deleteRecCalls(heap, Root, last'.key)) ]_vars

\* a Delete has just returned that made a double rotation
C14_Witness ==
    /\ last.op = "Delete" /\ last.ret = TRUE
    /\ last.rotations = 2

====
